---------------------------- MODULE Spec2Model ----------------------------
(***************************************************************************)
(* Model of max/nn/linear.py: the Linear and MLP layers, their sharding-   *)
(* strategy setters, their shard() factories and the dispatch of their     *)
(* forward pass.                                                           *)
(*                                                                         *)
(* Objects live in three heaps (sequences); an object's identity is its    *)
(* index.  W holds Weight objects, L holds Linear objects, M holds MLP     *)
(* objects.  A reference is an index, NoRef stands for Python's None.      *)
(* Weight and ShardingStrategy come from max.graph, which is outside the   *)
(* source tree; they are modelled from the specification's data model.     *)
(***************************************************************************)
EXTENDS Integers, Sequences, FiniteSets, TLC

VARIABLES W, L, M, root, ret

vars == <<W, L, M, root, ret>>

---------------------------------------------------------------------------
(* Bounds of the model.                                                    *)

MaxIn == 2

MaxOut == 3

MaxDev == 2

---------------------------------------------------------------------------
(* Values.                                                                 *)

\* None, for a field that holds a reference (bias: Weight | None = None).
NoRef == 0

\* DeviceRef.CPU() and DeviceRef.GPU(i).
CPU == [type |-> "cpu", id |-> 0]

GPU(i) == [type |-> "gpu", id |-> i]

\* Float8ScaleGranularity and Float8ScaleOrigin.
Float8ScaleGranularity == {"tensor", "rowwise", "colwise", "block"}

Float8ScaleOrigin == {"static", "dynamic"}

\* float8_config = None.
NoFloat8 == [input_granularity |-> "none", origin |-> "none",
             weight_granularity |-> "none"]

\* Float8Config, reduced to the fields linear.py reads.
Float8Config == [input_granularity : Float8ScaleGranularity,
                 origin : Float8ScaleOrigin,
                 weight_granularity : Float8ScaleGranularity]

\* Float8Config.is_static
is_static(f8) == f8.origin = "static"

\* Float8WeightScaleSpec.is_tensor / is_rowwise
ws_is_tensor(f8) == f8.weight_granularity = "tensor"

ws_is_rowwise(f8) == f8.weight_granularity = "rowwise"

\* quantization_encoding: None or an encoding.
QuantizationEncodings == {"none", "q4_k"}

\* ShardingStrategy: a kind and a device count; NoStrategy is None.
StrategyKinds == {"replicate", "rowwise", "colwise", "head_aware_colwise",
                  "tensor_parallel"}

NoStrategy == [kind |-> "none", num_devices |-> 0]

Strategy(kind, n) == [kind |-> kind, num_devices |-> n]

Strategies == [kind : StrategyKinds, num_devices : 1..MaxDev]

replicate(n) == Strategy("replicate", n)

rowwise(n) == Strategy("rowwise", n)

columnwise(n) == Strategy("colwise", n)

is_replicate(s) == s.kind = "replicate"

is_rowwise(s) == s.kind = "rowwise"

is_colwise(s) == s.kind = "colwise"

is_head_aware_colwise(s) == s.kind = "head_aware_colwise"

is_tensor_parallel(s) == s.kind = "tensor_parallel"

\* The devices argument of shard(): an Iterable.  A list can be traversed
\* again and again, a single-pass iterator only once.
DeviceList(n) == [i \in 1..n |-> GPU(i - 1)]

DeviceArgs == [items : {DeviceList(n) : n \in 1..MaxDev}, onepass : BOOLEAN]

\* One traversal of the iterable: the items it yields and what is left of it.
Traverse(devs) ==
    [items |-> devs.items,
     rest |-> IF devs.onepass THEN [items |-> <<>>, onepass |-> TRUE]
                              ELSE devs]

Min(a, b) == IF a < b THEN a ELSE b

\* F applied to the value of v: v is evaluated once, before F uses it.
Bind(v, F(_)) == CHOOSE r \in {F(x) : x \in {v}} : TRUE

---------------------------------------------------------------------------
(* Weight (max.graph).                                                     *)

\* Weight(name, dtype, shape, device, quantization_encoding): a fresh weight
\* with no sharding strategy.  parent/idx/via record which weight a shard was
\* cut from, at which index and by which strategy (parent = NoRef for a
\* weight that is no shard).
NewWeight(shape, device, enc) ==
    [shape |-> shape, device |-> device, quantization_encoding |-> enc,
     sharding_strategy |-> NoStrategy, parent |-> NoRef, idx |-> 0,
     via |-> NoStrategy]

\* Length of the Python slice [i*size : (i+1)*size] of a dimension of
\* extent dim.
SliceLen(dim, size, i) == Min(dim, (i + 1) * size) - Min(dim, i * size)

\* Shape of shard i of a tensor of the given shape under strategy s.
ShardShape(shape, s, i) ==
    IF is_rowwise(s) /\ Len(shape) >= 1
    THEN [shape EXCEPT ![1] = SliceLen(shape[1], shape[1] \div s.num_devices, i)]
    ELSE IF is_colwise(s) /\ Len(shape) >= 2
    THEN [shape EXCEPT ![2] = SliceLen(shape[2], shape[2] \div s.num_devices, i)]
    ELSE IF is_head_aware_colwise(s) /\ Len(shape) >= 2
    THEN [shape EXCEPT ![2] =
            IF i < s.num_devices
            THEN (shape[2] \div s.num_devices)
                 + (IF i < shape[2] % s.num_devices THEN 1 ELSE 0)
            ELSE 0]
    ELSE shape

\* Shard i (0-based) of weight wid, on device.
WeightShardAt(Wh, wid, i, device) ==
    [shape |-> ShardShape(Wh[wid].shape, Wh[wid].sharding_strategy, i),
     device |-> device,
     quantization_encoding |-> Wh[wid].quantization_encoding,
     sharding_strategy |-> NoStrategy, parent |-> wid, idx |-> i,
     via |-> Wh[wid].sharding_strategy]

\* Weight.shard(devices): one new Weight per device, in order; an error when
\* the weight has no strategy or a strategy that cuts no tensor.  The result
\* carries the heap, the new weights' references and what is left of devices.
WeightShard(Wh, wid, devs) ==
    LET s == Wh[wid].sharding_strategy
        t == Traverse(devs)
        n == Len(t.items)
    IN  IF s = NoStrategy \/ is_tensor_parallel(s)
        THEN [err |-> TRUE, W |-> Wh, ids |-> <<>>, rest |-> devs]
        ELSE [err |-> FALSE,
              W |-> Wh \o [k \in 1..n |-> WeightShardAt(Wh, wid, k - 1, t.items[k])],
              ids |-> [k \in 1..n |-> Len(Wh) + k],
              rest |-> t.rest]

---------------------------------------------------------------------------
(* Tensors (max.graph).  A rank-2 tensor is a sequence of rows, a rank-1   *)
(* tensor a sequence of numbers; the arithmetic is that of the integers.   *)

\* The result of a kernel whose arithmetic is outside the source tree
\* (quantized and float8 matmuls, activations that leave the integers).
Opaque == "opaque"

\* The values a weight file gives the weights: one tensor per weight, of the
\* weight's shape, the k-th file filling them from k.
Entry(k, r, c) == ((k * 5 + r * 3 + c * 2) % 7) - 3

Fill(k, shape) ==
    IF Len(shape) = 0 THEN <<>>
    ELSE IF Len(shape) = 1 THEN [r \in 1..shape[1] |-> Entry(k, r, 1)]
    ELSE [r \in 1..shape[1] |-> [c \in 1..shape[2] |-> Entry(k, r, c)]]

StateDict(Wh, k) == [wid \in DOMAIN Wh |-> Fill(k + wid, Wh[wid].shape)]

StateDicts == {1, 2}

\* Inputs of a forward pass: tensors of shape [2, in_dim].
Input(k, in_dim) == [r \in 1..2 |-> [c \in 1..in_dim |-> Entry(k + 1, c, r)]]

Inputs(in_dim) == {Input(k, in_dim) : k \in {1, 2}}

\* Shard i (0-based) of the tensor t of the given rank under strategy s: the
\* slice ShardShape gives the shape of.
SliceOf(t, rank, s, i) ==
    IF is_rowwise(s) /\ rank >= 1
    THEN LET size == Len(t) \div s.num_devices
         IN  SubSeq(t, Min(Len(t), i * size) + 1, Min(Len(t), (i + 1) * size))
    ELSE IF is_colwise(s) /\ rank >= 2
    THEN [r \in 1..Len(t) |->
            LET size == Len(t[r]) \div s.num_devices
            IN  SubSeq(t[r], Min(Len(t[r]), i * size) + 1,
                       Min(Len(t[r]), (i + 1) * size))]
    ELSE IF is_head_aware_colwise(s) /\ rank >= 2
    THEN [r \in 1..Len(t) |->
            LET base == Len(t[r]) \div s.num_devices
                rem == Len(t[r]) % s.num_devices
                lo == i * base + Min(i, rem)
                n == IF i < s.num_devices
                     THEN base + (IF i < rem THEN 1 ELSE 0) ELSE 0
            IN  SubSeq(t[r], lo + 1, lo + n)]
    ELSE t

\* The value of the weight wid when the weight file is data: a shard holds
\* its slice of the weight it was cut from.
RECURSIVE TensorOf(_, _, _)
TensorOf(Wh, data, wid) ==
    IF Wh[wid].parent = NoRef THEN data[wid]
    ELSE SliceOf(TensorOf(Wh, data, Wh[wid].parent),
                 Len(Wh[Wh[wid].parent].shape), Wh[wid].via, Wh[wid].idx)

RECURSIVE Dot(_, _)
Dot(a, b) == IF a = <<>> THEN 0 ELSE Head(a) * Head(b) + Dot(Tail(a), Tail(b))

\* x @ w.T
MatMulT(x, w) == [i \in 1..Len(x) |-> [j \in 1..Len(w) |-> Dot(x[i], w[j])]]

\* t + b, the rank-1 tensor b broadcast over the rows of t.
AddBias(t, b) == [i \in 1..Len(t) |-> [j \in 1..Len(t[i]) |-> t[i][j] + b[j]]]

\* a * b, elementwise.
Mul(a, b) == [i \in 1..Len(a) |-> [j \in 1..Len(a[i]) |-> a[i][j] * b[i][j]]]

\* clamp(t, -c, c)
clamp(t, c) ==
    [i \in 1..Len(t) |-> [j \in 1..Len(t[i]) |->
        IF t[i][j] > c THEN c ELSE IF t[i][j] < -c THEN -c ELSE t[i][j]]]

\* ops.concat of two tensors along axis 0.
concat(a, b) == a \o b

\* One piece of ops.split(t, sizes, axis=1): the columns lo..hi.
SplitCols(t, lo, hi) == [i \in 1..Len(t) |-> SubSeq(t[i], lo, hi)]

\* ops.relu
relu(t) == [i \in 1..Len(t) |-> [j \in 1..Len(t[i]) |->
                IF t[i][j] > 0 THEN t[i][j] ELSE 0]]

\* Row r of the concatenation of the tensors parts[k..] along the last axis.
RECURSIVE GatherRow(_, _, _)
GatherRow(parts, r, k) ==
    IF k > Len(parts) THEN <<>> ELSE parts[k][r] \o GatherRow(parts, r, k + 1)

\* ops.allgather(parts, signal_buffers, axis=-1): every device receives the
\* concatenation of all the parts along the last axis.
allgather(parts) ==
    [i \in 1..Len(parts) |->
        [r \in 1..Len(parts[1]) |-> GatherRow(parts, r, 1)]]

---------------------------------------------------------------------------
(* Linear.                                                                 *)

NoLinear == [weight |-> NoRef, bias |-> NoRef, input_scale |-> NoRef,
             weight_scale |-> NoRef, device |-> CPU, clip_weight |-> 0,
             float8_config |-> NoFloat8]

\* Mutant of LinearInit: the granularity of the input scale is not validated.
LinearInitNoInputCheck(Wh, in_dim, out_dim, device, has_bias, enc, f8, clip) ==
    LET W1 == Append(Wh, NewWeight(<<out_dim, in_dim>>, device, enc))
        W2 == IF has_bias
              THEN Append(W1, NewWeight(<<out_dim>>, device, enc))
              ELSE W1
        hasF8 == f8 # NoFloat8
        static == hasF8 /\ is_static(f8)
        W3 == IF static THEN Append(W2, NewWeight(<<>>, CPU, enc)) ELSE W2
        badWeight == hasF8 /\ ~ws_is_rowwise(f8) /\ ~ws_is_tensor(f8)
        weight_scale_shape == IF ws_is_rowwise(f8) THEN <<W1[Len(W1)].shape[1], 1>>
                                                   ELSE <<>>
        W4 == IF hasF8
              THEN Append(W3, NewWeight(weight_scale_shape, CPU, enc))
              ELSE W3
    IN  IF badWeight
        THEN [err |-> TRUE, W |-> W3, lin |-> NoLinear]
        ELSE [err |-> FALSE, W |-> W4,
              lin |-> [weight |-> Len(W1),
                       bias |-> IF has_bias THEN Len(W2) ELSE NoRef,
                       input_scale |-> IF static THEN Len(W3) ELSE NoRef,
                       weight_scale |-> IF hasF8 THEN Len(W4) ELSE NoRef,
                       device |-> device, clip_weight |-> clip,
                       float8_config |-> f8]]

\* Linear.__init__.  clip_weight 0 stands for None.  The result carries the
\* heap after the allocations and the new object's fields, or err and the
\* heap as it is when the error is raised.
LinearInit(Wh, in_dim, out_dim, device, has_bias, enc, f8, clip) ==
    LET W1 == Append(Wh, NewWeight(<<out_dim, in_dim>>, device, enc))
        W2 == IF has_bias
              THEN Append(W1, NewWeight(<<out_dim>>, device, enc))
              ELSE W1
        hasF8 == f8 # NoFloat8
        static == hasF8 /\ is_static(f8)
        W3 == IF static THEN Append(W2, NewWeight(<<>>, CPU, enc)) ELSE W2
        badInput == hasF8 /\ f8.input_granularity \notin {"tensor", "colwise"}
        badWeight == hasF8 /\ ~ws_is_rowwise(f8) /\ ~ws_is_tensor(f8)
        weight_scale_shape == IF ws_is_rowwise(f8) THEN <<W1[Len(W1)].shape[1], 1>>
                                                   ELSE <<>>
        W4 == IF hasF8
              THEN Append(W3, NewWeight(weight_scale_shape, CPU, enc))
              ELSE W3
    IN  IF badInput \/ badWeight
        THEN [err |-> TRUE, W |-> W3, lin |-> NoLinear]
        ELSE [err |-> FALSE, W |-> W4,
              lin |-> [weight |-> Len(W1),
                       bias |-> IF has_bias THEN Len(W2) ELSE NoRef,
                       input_scale |-> IF static THEN Len(W3) ELSE NoRef,
                       weight_scale |-> IF hasF8 THEN Len(W4) ELSE NoRef,
                       device |-> device, clip_weight |-> clip,
                       float8_config |-> f8]]

\* Linear.sharding_strategy (getter).
LinearStrategy(Wh, lin) == Wh[lin.weight].sharding_strategy

\* Mutant of WeightScaleStrategy: the colwise clause is forgotten, so a
\* rowwise scale follows a colwise weight instead of being replicated.
WeightScaleStrategyTensorOnly(f8, strategy) ==
    IF ws_is_tensor(f8) THEN replicate(strategy.num_devices) ELSE strategy

\* Mutant of WeightScaleStrategy: the scale always mirrors the weight.
WeightScaleStrategyMirror(f8, strategy) == strategy

\* The strategy the setter gives the weight scale.
WeightScaleStrategy(f8, strategy) ==
    LET should_replicate ==
            ws_is_tensor(f8)
            \/ ((is_colwise(strategy) \/ is_head_aware_colwise(strategy))
                /\ ws_is_rowwise(f8))
    IN  IF should_replicate THEN replicate(strategy.num_devices) ELSE strategy

\* Mutant of BiasStrategy: the bias always mirrors the weight's strategy.
BiasStrategyMirror(strategy) == strategy

\* The strategy the setter gives the bias.
BiasStrategy(strategy) ==
    IF is_rowwise(strategy) THEN strategy ELSE replicate(strategy.num_devices)

\* Linear.sharding_strategy (setter): the heap after the assignment.
LinearSetStrategy(Wh, lin, strategy) ==
    LET W1 == [Wh EXCEPT ![lin.weight].sharding_strategy = strategy]
        W2 == IF lin.weight_scale # NoRef
              THEN [W1 EXCEPT ![lin.weight_scale].sharding_strategy =
                        WeightScaleStrategy(lin.float8_config, strategy)]
              ELSE W1
        W3 == IF lin.bias # NoRef
              THEN [W2 EXCEPT ![lin.bias].sharding_strategy =
                        BiasStrategy(strategy)]
              ELSE W2
    IN  W3


\* Mutant of ShardOutDim: the division is applied under every strategy.
ShardOutDimAlwaysDivided(Wh, lin) ==
    Wh[lin.weight].shape[1] \div Wh[lin.weight].sharding_strategy.num_devices

\* The out_dim Linear.shard passes to each shard's constructor.
ShardOutDim(Wh, lin) ==
    IF is_rowwise(Wh[lin.weight].sharding_strategy)
    THEN Wh[lin.weight].shape[1] \div Wh[lin.weight].sharding_strategy.num_devices
    ELSE Wh[lin.weight].shape[1]

\* Mutant of ShardBias: every shard keeps its bias shard.
ShardBiasOnEveryShard(strategy, shard_idx, sharded_biases) ==
    sharded_biases[shard_idx + 1]

\* Mutant of ShardBias: under a colwise strategy no shard keeps a bias.
ShardBiasDroppedColwise(strategy, shard_idx, sharded_biases) ==
    LET colwise == is_colwise(strategy) \/ is_head_aware_colwise(strategy)
    IN  IF colwise THEN NoRef ELSE sharded_biases[shard_idx + 1]

\* The bias Linear.shard gives the shard at shard_idx (0-based) of a layer
\* that has a bias.
ShardBias(strategy, shard_idx, sharded_biases) ==
    LET colwise == is_colwise(strategy) \/ is_head_aware_colwise(strategy)
    IN  IF colwise /\ shard_idx > 0 THEN NoRef
        ELSE sharded_biases[shard_idx + 1]

\* Mutant of ShardInputScale: the shard keeps the scale its constructor made.
ShardInputScaleFresh(self, fresh) == fresh

\* The input scale Linear.shard gives a shard: fresh is the one the shard's
\* constructor allocated.
ShardInputScale(self, fresh) ==
    IF self.float8_config # NoFloat8 /\ self.input_scale # NoRef
    THEN self.input_scale
    ELSE fresh

\* Mutant of ShardWeightScale: a scale that is not a scalar is not handed to
\* the shard.
ShardWeightScaleDropped(Wh, self, fresh, shard_idx, sharded_weight_scales) ==
    IF self.float8_config # NoFloat8 /\ self.weight_scale # NoRef
    THEN IF Len(Wh[self.weight_scale].shape) = 0
         THEN self.weight_scale
         ELSE NoRef
    ELSE fresh

\* The weight scale Linear.shard gives the shard at shard_idx.
ShardWeightScale(Wh, self, fresh, shard_idx, sharded_weight_scales) ==
    IF self.float8_config # NoFloat8 /\ self.weight_scale # NoRef
    THEN IF Len(Wh[self.weight_scale].shape) = 0
         THEN self.weight_scale
         ELSE sharded_weight_scales[shard_idx + 1]
    ELSE fresh

\* Mutant of ShardOne: the weight shard is also assigned to self.weight.
ShardOneInPlace(Wh, Lh, lid, device, out_dim, shard_idx, weight_shard, sharded_biases, sharded_weight_scales) ==
    LET self == Lh[lid]
    IN  Bind(LinearInit(Wh, Wh[self.weight].shape[2], out_dim, device,
                        self.bias # NoRef, "none", self.float8_config,
                        self.clip_weight),
             LAMBDA c :
                [W |-> c.W,
                 L |-> Append([Lh EXCEPT ![lid].weight = weight_shard],
                    [c.lin EXCEPT
                        !.weight = weight_shard,
                        !.bias = IF self.bias # NoRef
                                 THEN IF (is_colwise(Wh[self.weight].sharding_strategy)
                                          \/ is_head_aware_colwise(
                                                Wh[self.weight].sharding_strategy))
                                         /\ shard_idx > 0
                                      THEN NoRef
                                      ELSE sharded_biases[shard_idx + 1]
                                 ELSE @,
                        !.input_scale =
                            IF self.float8_config # NoFloat8
                               /\ self.input_scale # NoRef
                            THEN self.input_scale ELSE @,
                        !.weight_scale =
                            IF self.float8_config # NoFloat8
                               /\ self.weight_scale # NoRef
                            THEN IF Len(Wh[self.weight_scale].shape) = 0
                                 THEN self.weight_scale
                                 ELSE sharded_weight_scales[shard_idx + 1]
                            ELSE @])])

\* One pass of the loop of Linear.shard: construct a Linear on device and
\* replace its tensors.  The heaps after it; the new Linear is the last of L.
ShardOne(Wh, Lh, lid, device, out_dim, shard_idx, weight_shard, sharded_biases, sharded_weight_scales) ==
    LET self == Lh[lid]
    IN  Bind(LinearInit(Wh, Wh[self.weight].shape[2], out_dim, device,
                        self.bias # NoRef, "none", self.float8_config,
                        self.clip_weight),
             LAMBDA c :
                [W |-> c.W,
                 L |-> Append(Lh,
                    [c.lin EXCEPT
                        !.weight = weight_shard,
                        !.bias = IF self.bias # NoRef
                                 THEN ShardBias(Wh[self.weight].sharding_strategy,
                                                shard_idx, sharded_biases)
                                 ELSE @,
                        !.input_scale = ShardInputScale(self, @),
                        !.weight_scale =
                            ShardWeightScale(Wh, self, @, shard_idx,
                                             sharded_weight_scales)])])

\* The loop of Linear.shard over zip(devices, sharded_weights), from its
\* k-th pass on; shards collects the references of the Linears made so far.
RECURSIVE LinearShardLoop(_, _, _, _, _, _, _, _, _, _)
LinearShardLoop(Wh, Lh, lid, items, out_dim, sharded_weights, sharded_biases, sharded_weight_scales, k, shards) ==
    IF k > Min(Len(items), Len(sharded_weights))
    THEN [W |-> Wh, L |-> Lh, shards |-> shards]
    ELSE Bind(ShardOne(Wh, Lh, lid, items[k], out_dim, k - 1,
                       sharded_weights[k], sharded_biases,
                       sharded_weight_scales),
              LAMBDA one :
                LinearShardLoop(one.W, one.L, lid, items, out_dim,
                                sharded_weights, sharded_biases,
                                sharded_weight_scales, k + 1,
                                Append(shards, Len(one.L))))

\* Mutant of LinearShardError: an empty list is returned instead of raising.
LinearShardReturnsEmpty(Wh, Lh, devs) ==
    [err |-> FALSE, W |-> Wh, L |-> Lh, shards |-> <<>>, out_dims |-> <<>>,
     rest |-> devs]

\* raise ValueError in Linear.shard: nothing is returned.
LinearShardError(Wh, Lh, devs) ==
    [err |-> TRUE, W |-> Wh, L |-> Lh, shards |-> <<>>, out_dims |-> <<>>,
     rest |-> devs]

NoShards(Wh, rest) == [err |-> FALSE, W |-> Wh, ids |-> <<>>, rest |-> rest]

\* Linear.shard(devices) on the Linear lid.
LinearShard(Wh, Lh, lid, devs) ==
    LET self == Lh[lid]
        out_dim == ShardOutDim(Wh, self)
        sharded_scale == /\ self.float8_config # NoFloat8
                         /\ self.weight_scale # NoRef
                         /\ Len(Wh[self.weight_scale].shape) > 0
    IN  IF Wh[self.weight].sharding_strategy = NoStrategy
        THEN LinearShardError(Wh, Lh, devs)
        ELSE
        Bind(WeightShard(Wh, self.weight, devs), LAMBDA sw :
        IF sw.err THEN LinearShardError(Wh, Lh, devs) ELSE
        Bind(IF self.bias # NoRef THEN WeightShard(sw.W, self.bias, sw.rest)
                                  ELSE NoShards(sw.W, sw.rest), LAMBDA sb :
        IF sb.err THEN LinearShardError(Wh, Lh, devs) ELSE
        Bind(IF sharded_scale THEN WeightShard(sb.W, self.weight_scale, sb.rest)
                              ELSE NoShards(sb.W, sb.rest), LAMBDA ss :
        IF ss.err THEN LinearShardError(Wh, Lh, devs) ELSE
        Bind(Traverse(ss.rest), LAMBDA z :
        Bind(LinearShardLoop(ss.W, Lh, lid, z.items, out_dim, sw.ids, sb.ids,
                             ss.ids, 1, <<>>), LAMBDA loop :
            [err |-> FALSE, W |-> loop.W, L |-> loop.L,
             shards |-> loop.shards,
             out_dims |-> [k \in 1..Len(loop.shards) |-> out_dim],
             rest |-> z.rest])))))

\* One kernel invocation of a forward pass: which layer ran which kernel.
Kernel(who, op) == [who |-> who, op |-> op]

\* Mutant of LinearCall: the float8 config is looked at before the weight's
\* quantization encoding.
LinearCallFloat8First(Wh, lin, who) ==
    (IF lin.clip_weight # 0 THEN <<Kernel(who, "clamp")>> ELSE <<>>)
    \o (IF lin.float8_config # NoFloat8
        THEN IF lin.input_scale # NoRef
             THEN <<Kernel(who, "quantize_static_scaled_float8"),
                    Kernel(who, "matmul_static_scaled_float8")>>
             ELSE <<Kernel(who, "quantize_dynamic_scaled_float8"),
                    Kernel(who, "dynamic_scaled_matmul")>>
        ELSE IF Wh[lin.weight].quantization_encoding # "none"
        THEN <<Kernel(who, "qmatmul")>>
        ELSE <<Kernel(who, "matmul")>>)
    \o (IF lin.bias # NoRef THEN <<Kernel(who, "add_bias")>> ELSE <<>>)

\* Linear.__call__: the kernels it invokes, in order.
LinearCall(Wh, lin, who) ==
    (IF lin.clip_weight # 0 THEN <<Kernel(who, "clamp")>> ELSE <<>>)
    \o (IF Wh[lin.weight].quantization_encoding # "none"
        THEN <<Kernel(who, "qmatmul")>>
        ELSE IF lin.float8_config # NoFloat8
        THEN IF lin.input_scale # NoRef
             THEN <<Kernel(who, "quantize_static_scaled_float8"),
                    Kernel(who, "matmul_static_scaled_float8")>>
             ELSE <<Kernel(who, "quantize_dynamic_scaled_float8"),
                    Kernel(who, "dynamic_scaled_matmul")>>
        ELSE <<Kernel(who, "matmul")>>)
    \o (IF lin.bias # NoRef THEN <<Kernel(who, "add_bias")>> ELSE <<>>)

\* The layer multiplies by the weight itself: no quantization encoding on
\* the weight and no float8 config.
IsPlain(Wh, lin) ==
    Wh[lin.weight].quantization_encoding = "none" /\ lin.float8_config = NoFloat8

\* Linear.__call__: the value it returns for the input x when the weight
\* file is data.
LinearForward(Wh, data, lin, x) ==
    IF ~IsPlain(Wh, lin) THEN Opaque
    ELSE Bind(TensorOf(Wh, data, lin.weight), LAMBDA w :
         Bind(MatMulT(x, IF lin.clip_weight # 0 THEN clamp(w, lin.clip_weight)
                                               ELSE w), LAMBDA res :
            IF lin.bias # NoRef
            THEN AddBias(res, TensorOf(Wh, data, lin.bias))
            ELSE res))

---------------------------------------------------------------------------
(* MLP.                                                                    *)

\* _ACTIVATION_FUNCTIONS
ActivationFunctions == {"silu", "gelu", "gelu_tanh", "relu", "tanh", "sigmoid"}

\* dist_gemm_config: None or DistributedGemmConfig(enable_matmul_allreduce).
NoDistGemm == [present |-> FALSE, enable_matmul_allreduce |-> FALSE]

DistributedGemmConfig(enable) ==
    [present |-> TRUE, enable_matmul_allreduce |-> enable]

DistGemmConfigs ==
    {NoDistGemm, DistributedGemmConfig(TRUE), DistributedGemmConfig(FALSE)}

NoMLP == [gate_proj |-> NoRef, down_proj |-> NoRef, up_proj |-> NoRef,
          devices |-> <<>>, dist_gemm_config |-> NoDistGemm, hidden_dim |-> 0,
          feed_forward_length |-> 0, quantization_encoding |-> "none",
          float8_config |-> NoFloat8, activation_function |-> "silu",
          sharding_strategy |-> NoStrategy]

\* MLP.__init__ with linear_cls = Linear.  The three projections are
\* constructed first (a ValueError of Linear.__init__ leaves through them);
\* the name of the activation is tested after them, by an assert statement.
MLPInit(Wh, Lh, enc, hidden_dim, feed_forward_length, devices, has_bias, activation_function, f8, dist_gemm_config) ==
    Bind(LinearInit(Wh, hidden_dim, feed_forward_length, devices[1],
                    has_bias, enc, f8, 0), LAMBDA gate :
    Bind(LinearInit(gate.W, feed_forward_length, hidden_dim, devices[1],
                    has_bias, enc, f8, 0), LAMBDA down :
    Bind(LinearInit(down.W, hidden_dim, feed_forward_length, devices[1],
                    has_bias, enc, f8, 0), LAMBDA up :
        IF gate.err \/ down.err \/ up.err
        THEN [err |-> TRUE, status |-> "ValueError", W |-> Wh, L |-> Lh,
              mlp |-> NoMLP]
        ELSE IF activation_function \notin ActivationFunctions
        THEN [err |-> TRUE, status |-> "AssertionError", W |-> Wh, L |-> Lh,
              mlp |-> NoMLP]
        ELSE [err |-> FALSE, status |-> "ok", W |-> up.W,
              L |-> Lh \o <<gate.lin, down.lin, up.lin>>,
              mlp |-> [gate_proj |-> Len(Lh) + 1, down_proj |-> Len(Lh) + 2,
                       up_proj |-> Len(Lh) + 3, devices |-> devices,
                       dist_gemm_config |-> dist_gemm_config,
                       hidden_dim |-> hidden_dim,
                       feed_forward_length |-> feed_forward_length,
                       quantization_encoding |-> enc, float8_config |-> f8,
                       activation_function |-> activation_function,
                       sharding_strategy |-> NoStrategy]])))

\* Mutant of MLPSetStrategy: under tensor parallelism down_proj is cut
\* rowwise like the other two projections.
MLPSetStrategyAllRowwise(Wh, Lh, mlp, strategy) ==
    LET m1 == [mlp EXCEPT !.sharding_strategy = strategy]
        n == strategy.num_devices
        s == IF is_tensor_parallel(strategy) THEN rowwise(n) ELSE strategy
    IN  IF is_replicate(strategy) \/ is_tensor_parallel(strategy)
        THEN [err |-> FALSE, mlp |-> m1,
              W |-> LinearSetStrategy(
                      LinearSetStrategy(
                        LinearSetStrategy(Wh, Lh[mlp.gate_proj], s),
                        Lh[mlp.down_proj], s),
                      Lh[mlp.up_proj], s)]
        ELSE [err |-> TRUE, mlp |-> m1, W |-> Wh]

\* MLP.sharding_strategy (setter): the strategy is recorded first, then
\* handed to the sub-layers; an unsupported kind raises after the recording.
MLPSetStrategy(Wh, Lh, mlp, strategy) ==
    LET m1 == [mlp EXCEPT !.sharding_strategy = strategy]
        n == strategy.num_devices
    IN  IF is_replicate(strategy)
        THEN [err |-> FALSE, mlp |-> m1,
              W |-> LinearSetStrategy(
                      LinearSetStrategy(
                        LinearSetStrategy(Wh, Lh[mlp.gate_proj], strategy),
                        Lh[mlp.down_proj], strategy),
                      Lh[mlp.up_proj], strategy)]
        ELSE IF is_tensor_parallel(strategy)
        THEN [err |-> FALSE, mlp |-> m1,
              W |-> LinearSetStrategy(
                      LinearSetStrategy(
                        LinearSetStrategy(Wh, Lh[mlp.gate_proj], rowwise(n)),
                        Lh[mlp.down_proj], columnwise(n)),
                      Lh[mlp.up_proj], rowwise(n))]
        ELSE [err |-> TRUE, mlp |-> m1, W |-> Wh]

\* Mutant of MLPShardOne: the down and up projections change places.
MLPShardOneSwapped(Wh, Lh, Mh, mid, device, gate_proj, down_proj, up_proj) ==
    LET self == Mh[mid]
    IN  Bind(MLPInit(Wh, Lh, self.quantization_encoding, self.hidden_dim,
                     self.feed_forward_length, <<device>>,
                     Lh[self.gate_proj].bias # NoRef, self.activation_function,
                     self.float8_config, self.dist_gemm_config),
             LAMBDA c :
                [W |-> c.W, L |-> c.L,
                 M |-> Append(Mh, [c.mlp EXCEPT !.gate_proj = gate_proj,
                                                !.down_proj = up_proj,
                                                !.up_proj = down_proj])])

\* One pass of the loop of MLP.shard: construct an MLP on device and replace
\* its three sub-layers.  The heaps after it; the new MLP is the last of M.
MLPShardOne(Wh, Lh, Mh, mid, device, gate_proj, down_proj, up_proj) ==
    LET self == Mh[mid]
    IN  Bind(MLPInit(Wh, Lh, self.quantization_encoding, self.hidden_dim,
                     self.feed_forward_length, <<device>>,
                     Lh[self.gate_proj].bias # NoRef, self.activation_function,
                     self.float8_config, self.dist_gemm_config),
             LAMBDA c :
                [W |-> c.W, L |-> c.L,
                 M |-> Append(Mh, [c.mlp EXCEPT !.gate_proj = gate_proj,
                                                !.down_proj = down_proj,
                                                !.up_proj = up_proj])])

\* The loop of MLP.shard over zip(devices, gates, downs, ups), from its k-th
\* pass on.
RECURSIVE MLPShardLoop(_, _, _, _, _, _, _, _, _, _)
MLPShardLoop(Wh, Lh, Mh, mid, items, gates, downs, ups, k, shards) ==
    IF k > Min(Min(Len(items), Len(gates)), Min(Len(downs), Len(ups)))
    THEN [W |-> Wh, L |-> Lh, M |-> Mh, shards |-> shards]
    ELSE Bind(MLPShardOne(Wh, Lh, Mh, mid, items[k], gates[k], downs[k],
                          ups[k]),
              LAMBDA one :
                MLPShardLoop(one.W, one.L, one.M, mid, items, gates, downs, ups,
                             k + 1, Append(shards, Len(one.M))))

\* raise ValueError in MLP.shard: nothing is returned.
MLPShardError(Wh, Lh, Mh) ==
    [err |-> TRUE, W |-> Wh, L |-> Lh, M |-> Mh, shards |-> <<>>]

\* MLP.shard(devices) on the MLP mid.
MLPShard(Wh, Lh, Mh, mid, devs) ==
    LET self == Mh[mid]
    IN  IF self.sharding_strategy = NoStrategy THEN MLPShardError(Wh, Lh, Mh)
        ELSE
        Bind(LinearShard(Wh, Lh, self.gate_proj, devs), LAMBDA g :
        IF g.err THEN MLPShardError(Wh, Lh, Mh) ELSE
        Bind(LinearShard(g.W, g.L, self.down_proj, g.rest), LAMBDA d :
        IF d.err THEN MLPShardError(Wh, Lh, Mh) ELSE
        Bind(LinearShard(d.W, d.L, self.up_proj, d.rest), LAMBDA u :
        IF u.err THEN MLPShardError(Wh, Lh, Mh) ELSE
        Bind(MLPShardLoop(u.W, u.L, Mh, mid, Traverse(u.rest).items, g.shards,
                          d.shards, u.shards, 1, <<>>), LAMBDA loop :
            [err |-> FALSE, W |-> loop.W, L |-> loop.L, M |-> loop.M,
             shards |-> loop.shards]))))

\* Mutant of SkipDownProj: the flag of the config is not read.
SkipDownProjIfConfigured(mlp) == mlp.dist_gemm_config.present

\* Whether MLP.__call__ returns the hidden tensor without the down
\* projection (only on the unquantized path).
SkipDownProj(mlp) ==
    ~(~mlp.dist_gemm_config.present
      \/ ~mlp.dist_gemm_config.enable_matmul_allreduce)

\* MLP.__call__: the kernels it invokes.  The swish_glu branch is guarded
\* by a literal False and is never taken.
MLPCall(Wh, Lh, mlp) ==
    IF mlp.quantization_encoding # "none" \/ mlp.float8_config # NoFloat8
    THEN LinearCall(Wh, Lh[mlp.gate_proj], "gate_proj")
         \o <<Kernel("mlp", "activation_function")>>
         \o LinearCall(Wh, Lh[mlp.up_proj], "up_proj")
         \o <<Kernel("mlp", "mul")>>
         \o LinearCall(Wh, Lh[mlp.down_proj], "down_proj")
    ELSE (IF Lh[mlp.gate_proj].bias # NoRef /\ Lh[mlp.up_proj].bias # NoRef
          THEN <<Kernel("mlp", "concat_bias")>> ELSE <<>>)
         \o <<Kernel("mlp", "concat_weight"), Kernel("mlp", "matmul")>>
         \o (IF Lh[mlp.gate_proj].bias # NoRef /\ Lh[mlp.up_proj].bias # NoRef
             THEN <<Kernel("mlp", "add_bias")>> ELSE <<>>)
         \o <<Kernel("mlp", "split"), Kernel("mlp", "activation_function"),
              Kernel("mlp", "mul")>>
         \o (IF SkipDownProj(mlp) THEN <<>>
             ELSE LinearCall(Wh, Lh[mlp.down_proj], "down_proj"))

\* The activations whose values stay in the integers.
IsExact(activation_function) == activation_function = "relu"

\* self.activation_function(t)
Activation(activation_function, t) ==
    IF activation_function = "relu" THEN relu(t) ELSE Opaque

\* down_proj(activation(gate_proj(x)) * up_proj(x)), each projection through
\* Linear.__call__.
MLPUnfused(Wh, Lh, data, mlp, x) ==
    IF ~(IsPlain(Wh, Lh[mlp.gate_proj]) /\ IsPlain(Wh, Lh[mlp.up_proj])
         /\ IsPlain(Wh, Lh[mlp.down_proj]) /\ IsExact(mlp.activation_function))
    THEN Opaque
    ELSE Bind(LinearForward(Wh, data, Lh[mlp.gate_proj], x), LAMBDA g :
         Bind(LinearForward(Wh, data, Lh[mlp.up_proj], x), LAMBDA u :
            LinearForward(Wh, data, Lh[mlp.down_proj],
                          Mul(Activation(mlp.activation_function, g), u))))

\* Mutant of MLPFusedHidden: the concatenated bias is not added.
MLPFusedHiddenNoBias(Wh, Lh, data, mlp, x) ==
    LET gate == Lh[mlp.gate_proj]
        up == Lh[mlp.up_proj]
        feed_forward_length == Wh[gate.weight].shape[1]
    IN  Bind(MatMulT(x, concat(TensorOf(Wh, data, gate.weight),
                               TensorOf(Wh, data, up.weight))), LAMBDA output :
            Mul(Activation(mlp.activation_function,
                           SplitCols(output, 1, feed_forward_length)),
                SplitCols(output, feed_forward_length + 1,
                          2 * feed_forward_length)))

\* The merged path of MLP.__call__ up to hidden: one matmul against the
\* concatenation of the gate and up weights, the concatenated biases added
\* when both exist, the result split in two at gate_proj.weight.shape[0].
MLPFusedHidden(Wh, Lh, data, mlp, x) ==
    LET gate == Lh[mlp.gate_proj]
        up == Lh[mlp.up_proj]
        feed_forward_length == Wh[gate.weight].shape[1]
        has_bias == gate.bias # NoRef /\ up.bias # NoRef
    IN  Bind(MatMulT(x, concat(TensorOf(Wh, data, gate.weight),
                               TensorOf(Wh, data, up.weight))), LAMBDA mm :
        Bind(IF has_bias
             THEN AddBias(mm, concat(TensorOf(Wh, data, gate.bias),
                                     TensorOf(Wh, data, up.bias)))
             ELSE mm, LAMBDA output :
            Mul(Activation(mlp.activation_function,
                           SplitCols(output, 1, feed_forward_length)),
                SplitCols(output, feed_forward_length + 1,
                          2 * feed_forward_length))))

\* MLP.__call__: the value it returns for the input x when the weight file
\* is data.
MLPForward(Wh, Lh, data, mlp, x) ==
    IF mlp.quantization_encoding # "none" \/ mlp.float8_config # NoFloat8
    THEN MLPUnfused(Wh, Lh, data, mlp, x)
    ELSE IF ~IsExact(mlp.activation_function) THEN Opaque
    ELSE Bind(MLPFusedHidden(Wh, Lh, data, mlp, x), LAMBDA hidden :
            IF SkipDownProj(mlp) THEN hidden
            ELSE LinearForward(Wh, data, Lh[mlp.down_proj], hidden))

---------------------------------------------------------------------------
(* ColumnParallelLinear.                                                   *)

\* has_bias among **kwargs: left out, or given with a value.
HasBiasArgs == {[given |-> FALSE, value |-> FALSE],
                [given |-> TRUE, value |-> FALSE],
                [given |-> TRUE, value |-> TRUE]}

\* **kwargs of ColumnParallelLinear.__init__: what Linear.__init__ takes.
NoKwargs == [has_bias |-> [given |-> FALSE, value |-> FALSE],
             quantization_encoding |-> "none", float8_config |-> NoFloat8,
             clip_weight |-> 0]

\* Mutant of CheckDevices: the emptiness of devices is not tested.
CheckDevicesNever(devices) == FALSE

\* The first test of ColumnParallelLinear.__init__: devices is empty.
CheckDevices(devices) == Len(devices) = 0

\* Mutant of CheckTied: only a float8 config is refused with a tied weight.
CheckTiedFloat8Only(tied_weight, kwargs) ==
    tied_weight # NoRef /\ kwargs.float8_config # NoFloat8

\* The second test: a tied weight together with a float8 config or has_bias.
CheckTied(tied_weight, kwargs) ==
    tied_weight # NoRef
    /\ (kwargs.float8_config # NoFloat8 \/ kwargs.has_bias.given)

\* The ColumnParallelLinear object: the fields of the Linear it is, and its own.
CPLObject(lin, devices, layers) ==
    [weight |-> lin.weight, bias |-> lin.bias, input_scale |-> lin.input_scale,
     weight_scale |-> lin.weight_scale, device |-> lin.device,
     clip_weight |-> lin.clip_weight, float8_config |-> lin.float8_config,
     devices |-> devices, num_devices |-> Len(devices),
     distributed_linear_layers |-> layers]

\* Mutant of Replica: every layer is given the first shard of the weight.
ReplicaFirstShard(Wh, Lh, in_dim, out_dim, device, kwargs, n, weight_shards, bias_shards) ==
    Bind(LinearInit(Wh, in_dim, out_dim, device, kwargs.has_bias.value,
                    kwargs.quantization_encoding, kwargs.float8_config,
                    kwargs.clip_weight), LAMBDA c :
        [W |-> c.W,
         L |-> Append(Lh, [c.lin EXCEPT
                            !.device = device,
                            !.weight = weight_shards[1],
                            !.bias = IF bias_shards # <<>>
                                     THEN bias_shards[n] ELSE @])])

\* One pass of the loop of ColumnParallelLinear.__init__ (n counts from 1):
\* a Linear on device, given shard n of the weight and, if there are bias
\* shards (<<>> stands for None), shard n of the bias.  The new Linear is
\* the last of L.
Replica(Wh, Lh, in_dim, out_dim, device, kwargs, n, weight_shards, bias_shards) ==
    Bind(LinearInit(Wh, in_dim, out_dim, device, kwargs.has_bias.value,
                    kwargs.quantization_encoding, kwargs.float8_config,
                    kwargs.clip_weight), LAMBDA c :
        [W |-> c.W,
         L |-> Append(Lh, [c.lin EXCEPT
                            !.device = device,
                            !.weight = weight_shards[n],
                            !.bias = IF bias_shards # <<>>
                                     THEN bias_shards[n] ELSE @])])

\* The loop over enumerate(self.devices), from its n-th pass on.
RECURSIVE ReplicaLoop(_, _, _, _, _, _, _, _, _, _)
ReplicaLoop(Wh, Lh, in_dim, out_dim, devices, kwargs, n, weight_shards, bias_shards, layers) ==
    IF n > Len(devices)
    THEN [W |-> Wh, L |-> Lh, layers |-> layers]
    ELSE Bind(Replica(Wh, Lh, in_dim, out_dim, devices[n], kwargs, n,
                      weight_shards, bias_shards), LAMBDA one :
            ReplicaLoop(one.W, one.L, in_dim, out_dim, devices, kwargs, n + 1,
                        weight_shards, bias_shards,
                        Append(layers, Len(one.L))))

\* An exception leaves ColumnParallelLinear.__init__: no object is made; W is
\* the heap at the raise.
CPLError(status, Wh, Lh) == [status |-> status, W |-> Wh, L |-> Lh, cpl |-> NoRef]

\* ColumnParallelLinear.__init__(in_dim, out_dim, dtype, devices,
\* tied_weight, **kwargs).  The new object is L[cpl]; its layers follow it.
CPLInit(Wh, Lh, in_dim, out_dim, devices, tied_weight, kwargs) ==
    IF CheckDevices(devices) THEN CPLError("ValueError", Wh, Lh)
    ELSE IF CheckTied(tied_weight, kwargs) THEN CPLError("ValueError", Wh, Lh)
    ELSE IF Len(devices) = 0 THEN CPLError("IndexError", Wh, Lh)
    ELSE
    Bind(LinearInit(Wh, in_dim, out_dim, devices[1], kwargs.has_bias.value,
                    kwargs.quantization_encoding, kwargs.float8_config,
                    kwargs.clip_weight), LAMBDA c :
    IF c.err THEN CPLError("ValueError", c.W, Lh) ELSE
    Bind([c.lin EXCEPT !.weight = IF tied_weight # NoRef THEN tied_weight
                                                          ELSE @], LAMBDA self :
    Bind(LinearSetStrategy(c.W, self, rowwise(Len(devices))), LAMBDA W1 :
    Bind(WeightShard(W1, self.weight, [items |-> devices, onepass |-> FALSE]),
         LAMBDA weight_shards :
    Bind(IF self.bias # NoRef
         THEN WeightShard(weight_shards.W, self.bias,
                          [items |-> devices, onepass |-> FALSE])
         ELSE NoShards(weight_shards.W, devices), LAMBDA bias_shards :
    IF weight_shards.err \/ bias_shards.err
    THEN CPLError("ValueError", W1, Lh) ELSE
    Bind(ReplicaLoop(bias_shards.W, Append(Lh, self), in_dim, out_dim,
                     devices, kwargs, 1, weight_shards.ids, bias_shards.ids,
                     <<>>), LAMBDA loop :
        [status |-> "ok", W |-> loop.W,
         L |-> [loop.L EXCEPT ![Len(Lh) + 1] =
                    CPLObject(self, devices, loop.layers)],
         cpl |-> Len(Lh) + 1]))))))

\* ColumnParallelLinear.__call__(x, signal_buffers): the values it returns,
\* one per device, for the inputs x (one per device) when the weight file is
\* data.
CPLCall(Wh, Lh, data, self, x) ==
    IF \E i \in 1..self.num_devices :
            ~IsPlain(Wh, Lh[self.distributed_linear_layers[i]])
    THEN [i \in 1..self.num_devices |-> Opaque]
    ELSE allgather([i \in 1..self.num_devices |->
            LinearForward(Wh, data, Lh[self.distributed_linear_layers[i]],
                          x[i])])

---------------------------------------------------------------------------
(* The state machine: one layer under construction (root), the calls made  *)
(* on it, and the outcome of the last call (ret).  The caller keeps the    *)
(* layer and the last returned value only, so the objects of an earlier    *)
(* result are dropped (and their identities reused) at the next call.      *)

NoDevices == [items |-> <<>>, onepass |-> FALSE]

Ret(op, status) ==
    [op |-> op, status |-> status, strategy |-> NoStrategy,
     devices |-> NoDevices, shards |-> <<>>, out_dims |-> <<>>,
     trace |-> <<>>, float8_config |-> NoFloat8, x |-> <<>>, data |-> 0,
     out |-> <<>>, tied_weight |-> NoRef, kwargs |-> NoKwargs, allocated |-> 0]

Status(err) == IF err THEN "ValueError" ELSE "ok"

\* The exceptions a caller can see for the outcome status of MLP.__init__:
\* `assert activation_function in _ACTIVATION_FUNCTIONS` raises
\* AssertionError; in a build that strips assert statements (python -O) the
\* lookup _ACTIVATION_FUNCTIONS[activation_function] of the next line raises
\* KeyError instead.
Raised(status) ==
    IF status = "AssertionError" THEN {"AssertionError", "KeyError"}
    ELSE {status}

Float8Args == Float8Config \cup {NoFloat8}

\* The float8 configurations the MLP is constructed with: those of a Linear
\* with a per-tensor input scale.
MLPFloat8Args == {f8 \in Float8Args : f8.input_granularity \in {"none", "tensor"}}

\* The heaps without the objects of the previous result.
BaseW == SubSeq(W, 1, root.nW)

BaseL == SubSeq(L, 1, root.nL)

BaseM == SubSeq(M, 1, root.nM)

\* Linear(in_dim, out_dim, dtype, device, has_bias, quantization_encoding,
\*        float8_config, clip_weight=clip)
InitLinear ==
    \E in_dim \in {MaxIn}, out_dim \in 1..MaxOut, has_bias \in BOOLEAN,
       enc \in QuantizationEncodings, f8 \in Float8Args, clip \in {0, 1} :
        \E c \in {LinearInit(<<>>, in_dim, out_dim, GPU(0), has_bias, enc, f8,
                             clip)} :
            /\ W = IF c.err THEN <<>> ELSE c.W
            /\ L = IF c.err THEN <<>> ELSE <<c.lin>>
            /\ M = <<>>
            /\ root = [cls |-> IF c.err THEN "none" ELSE "Linear",
                       id |-> IF c.err THEN NoRef ELSE 1,
                       nW |-> IF c.err THEN 0 ELSE Len(c.W),
                       nL |-> IF c.err THEN 0 ELSE 1, nM |-> 0]
            /\ ret = [Ret("Linear.__init__", Status(c.err))
                        EXCEPT !.float8_config = f8]

\* MLP(dtype, quantization_encoding, hidden_dim, feed_forward_length,
\*     devices, has_bias=..., activation_function=..., float8_config=...,
\*     dist_gemm_config=...)
InitMLP ==
    \E hidden_dim \in {MaxIn}, feed_forward_length \in {MaxOut},
       has_bias \in BOOLEAN, enc \in QuantizationEncodings,
       f8 \in MLPFloat8Args, dgc \in DistGemmConfigs,
       act \in {"relu", "swiglu"} :
        \E c \in {MLPInit(<<>>, <<>>, enc, hidden_dim, feed_forward_length,
                          DeviceList(1), has_bias, act, f8, dgc)} :
            /\ W = c.W
            /\ L = c.L
            /\ M = IF c.err THEN <<>> ELSE <<c.mlp>>
            /\ root = [cls |-> IF c.err THEN "none" ELSE "MLP",
                       id |-> IF c.err THEN NoRef ELSE 1,
                       nW |-> Len(c.W), nL |-> Len(c.L),
                       nM |-> IF c.err THEN 0 ELSE 1]
            /\ \E status \in Raised(c.status) :
                ret = [Ret("MLP.__init__", status)
                         EXCEPT !.float8_config = f8]

Init == InitLinear \/ InitMLP

\* linear.sharding_strategy = strategy
SetLinearStrategy(strategy) ==
    /\ root.cls = "Linear"
    /\ W' = LinearSetStrategy(BaseW, L[root.id], strategy)
    /\ L' = BaseL
    /\ M' = BaseM
    /\ ret' = [Ret("Linear.sharding_strategy", "ok")
                 EXCEPT !.strategy = strategy]
    /\ UNCHANGED root

\* linear.shard(devices)
ShardLinear(devs) ==
    /\ root.cls = "Linear"
    /\ \E r \in {LinearShard(BaseW, BaseL, root.id, devs)} :
           /\ W' = r.W
           /\ L' = r.L
           /\ ret' = [Ret("Linear.shard", Status(r.err))
                        EXCEPT !.devices = devs, !.shards = r.shards,
                               !.out_dims = r.out_dims]
    /\ M' = BaseM
    /\ UNCHANGED root

\* linear(x)
CallLinear ==
    /\ root.cls = "Linear"
    /\ W' = BaseW
    /\ L' = BaseL
    /\ M' = BaseM
    /\ ret' = [Ret("Linear.__call__", "ok")
                 EXCEPT !.trace = LinearCall(BaseW, L[root.id], "self")]
    /\ UNCHANGED root

\* mlp.sharding_strategy = strategy
SetMLPStrategy(strategy) ==
    /\ root.cls = "MLP"
    /\ \E r \in {MLPSetStrategy(BaseW, BaseL, M[root.id], strategy)} :
           /\ W' = r.W
           /\ M' = [BaseM EXCEPT ![root.id] = r.mlp]
           /\ ret' = [Ret("MLP.sharding_strategy", Status(r.err))
                        EXCEPT !.strategy = strategy]
    /\ L' = BaseL
    /\ UNCHANGED root

\* mlp.shard(devices)
ShardMLP(devs) ==
    /\ root.cls = "MLP"
    /\ \E r \in {MLPShard(BaseW, BaseL, BaseM, root.id, devs)} :
           /\ W' = r.W
           /\ L' = r.L
           /\ M' = r.M
           /\ ret' = [Ret("MLP.shard", Status(r.err))
                        EXCEPT !.devices = devs, !.shards = r.shards]
    /\ UNCHANGED root

\* mlp(x), with the weights loaded from the weight file k.
CallMLP ==
    /\ root.cls = "MLP"
    /\ W' = BaseW
    /\ L' = BaseL
    /\ M' = BaseM
    /\ \E x \in Inputs(M[root.id].hidden_dim), k \in StateDicts :
        \E out \in {MLPForward(BaseW, BaseL, StateDict(BaseW, k),
                                M[root.id], x)} :
            ret' = [Ret("MLP.__call__", "ok")
                      EXCEPT !.trace = MLPCall(BaseW, BaseL, M[root.id]),
                             !.x = x, !.data = k, !.out = out]
    /\ UNCHANGED root

Next ==
    \/ \E s \in Strategies : SetLinearStrategy(s)
    \/ \E d \in DeviceArgs : ShardLinear(d)
    \/ CallLinear
    \/ \E s \in Strategies : SetMLPStrategy(s)
    \/ \E d \in DeviceArgs : ShardMLP(d)
    \/ CallMLP

Spec == Init /\ [][Next]_vars

\* The keyword arguments the ColumnParallelLinear is constructed with.
Kwargs == [has_bias : HasBiasArgs, quantization_encoding : QuantizationEncodings,
           float8_config : MLPFloat8Args, clip_weight : {0, 1}]

\* The heap before the construction: the weight to tie, if any.
TiedHeap(tied, in_dim, out_dim) ==
    IF tied THEN <<NewWeight(<<out_dim, in_dim>>, CPU, "none")>> ELSE <<>>

\* ColumnParallelLinear(in_dim, out_dim, dtype, devices, tied_weight,
\*                      **kwargs), over 0..MaxDev devices and two out_dims, so
\* that the device counts that divide out_dim and those that do not both
\* occur.
InitCPL ==
    \E in_dim \in {MaxIn}, out_dim \in {MaxOut - 1, MaxOut}, n \in 0..MaxDev,
       tied \in BOOLEAN, kwargs \in Kwargs :
        \E c \in {CPLInit(TiedHeap(tied, in_dim, out_dim), <<>>, in_dim,
                          out_dim, DeviceList(n), IF tied THEN 1 ELSE NoRef,
                          kwargs)} :
            /\ W = IF c.status = "ok" THEN c.W
                   ELSE TiedHeap(tied, in_dim, out_dim)
            /\ L = c.L
            /\ M = <<>>
            /\ root = [cls |-> IF c.status = "ok" THEN "ColumnParallelLinear"
                                                  ELSE "none",
                       id |-> c.cpl,
                       nW |-> IF c.status = "ok" THEN Len(c.W)
                              ELSE Len(TiedHeap(tied, in_dim, out_dim)),
                       nL |-> Len(c.L), nM |-> 0]
            /\ ret = [Ret("ColumnParallelLinear.__init__", c.status)
                        EXCEPT !.devices = [items |-> DeviceList(n),
                                            onepass |-> FALSE],
                               !.float8_config = kwargs.float8_config,
                               !.tied_weight = IF tied THEN 1 ELSE NoRef,
                               !.kwargs = kwargs,
                               !.out_dims = <<out_dim>>,
                               !.allocated =
                                    Len(c.W) - Len(TiedHeap(tied, in_dim, out_dim))]

\* The inputs of a call over n devices: the same tensor on every device, or
\* tensors that differ from one device to the next.
CPLInputs(n, in_dim) ==
    {[i \in 1..n |-> Input(1, in_dim)],
     [i \in 1..n |-> Input(1 + (i % 2), in_dim)]}

\* column_parallel_linear(x, signal_buffers), one input per device, with the
\* weights loaded from the weight file k.
CallCPL ==
    /\ root.cls = "ColumnParallelLinear"
    /\ W' = BaseW
    /\ L' = BaseL
    /\ M' = BaseM
    /\ \E k \in StateDicts,
          x \in CPLInputs(L[root.id].num_devices,
                          W[L[root.id].weight].shape[2]) :
        \E out \in {CPLCall(BaseW, BaseL, StateDict(BaseW, k), L[root.id], x)} :
            ret' = [Ret("ColumnParallelLinear.__call__", "ok")
                      EXCEPT !.x = x, !.data = k, !.out = out]
    /\ UNCHANGED root

\* column_parallel_linear.sharding_strategy = strategy: the setter the class
\* inherits from Linear.
SetCPLStrategy(strategy) ==
    /\ root.cls = "ColumnParallelLinear"
    /\ W' = LinearSetStrategy(BaseW, L[root.id], strategy)
    /\ L' = BaseL
    /\ M' = BaseM
    /\ ret' = [Ret("ColumnParallelLinear.sharding_strategy", "ok")
                 EXCEPT !.strategy = strategy]
    /\ UNCHANGED root

\* column_parallel_linear.shard(devices): the shard the class inherits from
\* Linear; it returns Linears.
ShardCPL(devs) ==
    /\ root.cls = "ColumnParallelLinear"
    /\ \E r \in {LinearShard(BaseW, BaseL, root.id, devs)} :
           /\ W' = r.W
           /\ L' = r.L
           /\ ret' = [Ret("ColumnParallelLinear.shard", Status(r.err))
                        EXCEPT !.devices = devs, !.shards = r.shards,
                               !.out_dims = r.out_dims]
    /\ M' = BaseM
    /\ UNCHANGED root

NextCPL ==
    \/ CallCPL
    \/ \E s \in Strategies : SetCPLStrategy(s)
    \/ \E d \in DeviceArgs : ShardCPL(d)

SpecCPL == InitCPL /\ [][NextCPL]_vars

\* Every layer of the module: a Linear, an MLP or a ColumnParallelLinear.
InitAll == Init \/ InitCPL

NextAll == Next \/ NextCPL

SpecAll == InitAll /\ [][NextAll]_vars

\* MLP(...) without a float8 config, over two feed_forward_lengths, so that
\* the device counts that divide it and those that do not both occur.
InitTP ==
    \E hidden_dim \in {MaxIn}, feed_forward_length \in {MaxOut - 1, MaxOut},
       has_bias \in BOOLEAN, enc \in QuantizationEncodings,
       f8 \in {NoFloat8}, dgc \in DistGemmConfigs,
       act \in {"relu", "swiglu"} :
        \E c \in {MLPInit(<<>>, <<>>, enc, hidden_dim, feed_forward_length,
                          DeviceList(1), has_bias, act, f8, dgc)} :
            /\ W = c.W
            /\ L = c.L
            /\ M = IF c.err THEN <<>> ELSE <<c.mlp>>
            /\ root = [cls |-> IF c.err THEN "none" ELSE "MLP",
                       id |-> IF c.err THEN NoRef ELSE 1,
                       nW |-> Len(c.W), nL |-> Len(c.L),
                       nM |-> IF c.err THEN 0 ELSE 1]
            /\ \E status \in Raised(c.status) :
                ret = [Ret("MLP.__init__", status)
                         EXCEPT !.float8_config = f8]

\* The kernels of the calls of the MLPs shards[k..], one call after the other.
RECURSIVE MLPCallEach(_, _, _, _, _)
MLPCallEach(Wh, Lh, Mh, shards, k) ==
    IF k > Len(shards) THEN <<>>
    ELSE MLPCall(Wh, Lh, Mh[shards[k]])
         \o MLPCallEach(Wh, Lh, Mh, shards, k + 1)

\* [shard(x) for shard in shards]: every MLP the last mlp.shard(devices)
\* returned is called, in order, on the same input x, with the weights loaded
\* from the weight file k; no call when shard returned an empty list.  The
\* shards stay in the heaps.  MLP.__call__ assigns nothing and reads only the
\* shard's own tensors, so the calls are taken in one step: no call on the
\* source MLP between two of them changes what they return.
CallMLPShards ==
    /\ root.cls = "MLP"
    /\ ret.op = "MLP.shard"
    /\ ret.status = "ok"
    /\ \E x \in Inputs(M[root.id].hidden_dim), k \in StateDicts :
        \E out \in {[i \in DOMAIN ret.shards |->
                        MLPForward(W, L, StateDict(W, k), M[ret.shards[i]], x)]} :
            ret' = [ret EXCEPT !.op = "MLP.__call__ (shards)",
                               !.trace = MLPCallEach(W, L, M, ret.shards, 1),
                               !.x = x, !.data = k, !.out = out]
    /\ UNCHANGED <<W, L, M, root>>

NextTP ==
    \/ \E s \in Strategies : SetMLPStrategy(s)
    \/ \E d \in DeviceArgs : ShardMLP(d)
    \/ CallMLP
    \/ CallMLPShards

SpecTP == InitTP /\ [][NextTP]_vars

---------------------------------------------------------------------------
(* Properties.                                                             *)

RECURSIVE Sum(_)
Sum(s) == IF s = <<>> THEN 0 ELSE Head(s) + Sum(Tail(s))

\* The Linear under test, and the strategy and row count of its weight.
RootLinear == L[root.id]

RootStrategy == W[RootLinear.weight].sharding_strategy

RootOutDim == W[RootLinear.weight].shape[1]

\* The MLP under test.
RootMLP == M[root.id]

\* The last call was a Linear.shard that returned.
LinearSharded == ret.op = "Linear.shard" /\ ret.status = "ok"

\* The last call shard(devices) was given a list of n devices.
DeviceListOf(n) == ~ret.devices.onepass /\ Len(ret.devices.items) = n

\* C1: under a rowwise strategy over N devices, the out_dim values that
\* Linear.shard computes for its N shards sum to the layer's out_dim, for
\* every out_dim >= 1 and every N >= 1.
C1_RowwiseOutDimsSum ==
    (LinearSharded /\ is_rowwise(RootStrategy)
        /\ DeviceListOf(RootStrategy.num_devices))
    => /\ Len(ret.out_dims) = RootStrategy.num_devices
       /\ Sum(ret.out_dims) = RootOutDim

\* C2: under a strategy that is not rowwise, Linear.shard gives every shard
\* the out_dim of the original layer, whatever the device count.
C2_OutDimUnchanged ==
    (LinearSharded /\ ~is_rowwise(RootStrategy))
    => /\ Len(ret.out_dims) = Len(ret.shards)
       /\ \A k \in DOMAIN ret.out_dims : ret.out_dims[k] = RootOutDim

C2_Witness ==
    /\ LinearSharded
    /\ is_colwise(RootStrategy)
    /\ RootStrategy.num_devices = 2
    /\ Len(ret.shards) = 2
    /\ RootOutDim = 3
    /\ ret.out_dims = <<3, 3>>

\* C3: a Linear with a bias, sharded under a colwise or head-aware colwise
\* weight strategy over a list of N devices, yields N shards of which the
\* first has a bias and all the others have none.
C3_BiasOnFirstShardOnly ==
    \A n \in 1..MaxDev :
        (LinearSharded /\ RootLinear.bias # NoRef
            /\ (is_colwise(RootStrategy) \/ is_head_aware_colwise(RootStrategy))
            /\ DeviceListOf(n))
        => /\ Len(ret.shards) = n
           /\ L[ret.shards[1]].bias # NoRef
           /\ \A k \in 2..n : L[ret.shards[k]].bias = NoRef

C3_Witness ==
    /\ LinearSharded
    /\ RootLinear.bias # NoRef
    /\ is_head_aware_colwise(RootStrategy)
    /\ DeviceListOf(2)
    /\ L[ret.shards[1]].bias # NoRef
    /\ L[ret.shards[2]].bias = NoRef

\* C4: every shard of a float8 Linear holds the original's input_scale
\* object when the original has one, and the original's weight_scale object
\* when that scale is a scalar, under every strategy.
C4_ScalarScalesShared ==
    (LinearSharded /\ RootLinear.float8_config # NoFloat8)
    => \A k \in DOMAIN ret.shards :
        /\ RootLinear.input_scale # NoRef
            => L[ret.shards[k]].input_scale = RootLinear.input_scale
        /\ (RootLinear.weight_scale # NoRef
                /\ Len(W[RootLinear.weight_scale].shape) = 0)
            => L[ret.shards[k]].weight_scale = RootLinear.weight_scale

C4_Witness ==
    /\ LinearSharded
    /\ is_static(RootLinear.float8_config)
    /\ ws_is_tensor(RootLinear.float8_config)
    /\ Len(ret.shards) = 2
    /\ \A k \in 1..2 :
        /\ L[ret.shards[k]].input_scale = RootLinear.input_scale
        /\ L[ret.shards[k]].weight_scale = RootLinear.weight_scale
        /\ L[ret.shards[k]].weight # RootLinear.weight

\* The strategy C5 states for the weight scale of granularity g after the
\* assignment of s.
C5_Expected(g, s) ==
    IF g = "tensor" \/ (s.kind \in {"colwise", "head_aware_colwise"}
                        /\ g = "rowwise")
    THEN [kind |-> "replicate", num_devices |-> s.num_devices]
    ELSE s

\* C5: after any sequence of strategy assignments to a float8 Linear, the
\* weight scale's strategy is the one the last assigned strategy determines.
C5_WeightScaleStrategy ==
    (root.cls = "Linear" /\ RootLinear.weight_scale # NoRef)
    => /\ ret.op = "Linear.sharding_strategy"
            => W[RootLinear.weight_scale].sharding_strategy =
                 C5_Expected(RootLinear.float8_config.weight_granularity,
                             ret.strategy)
       /\ RootStrategy # NoStrategy
            => W[RootLinear.weight_scale].sharding_strategy =
                 C5_Expected(RootLinear.float8_config.weight_granularity,
                             RootStrategy)

C5_Witness ==
    /\ root.cls = "Linear"
    /\ ret.op = "Linear.sharding_strategy"
    /\ ret.strategy = Strategy("colwise", 2)
    /\ ws_is_rowwise(RootLinear.float8_config)
    /\ W[RootLinear.weight_scale].sharding_strategy = replicate(2)

\* The strategy C6 states for the bias after the assignment of s.
C6_Expected(s) ==
    IF s.kind = "rowwise" THEN s
    ELSE [kind |-> "replicate", num_devices |-> s.num_devices]

\* C6: after any sequence of strategy assignments to a Linear with a bias,
\* the weight's strategy is the last assigned one and the bias's strategy is
\* that strategy if it is rowwise and replicate over its devices otherwise.
C6_BiasStrategy ==
    (root.cls = "Linear" /\ RootLinear.bias # NoRef)
    => /\ ret.op = "Linear.sharding_strategy"
            => /\ RootStrategy = ret.strategy
               /\ W[RootLinear.bias].sharding_strategy = C6_Expected(ret.strategy)
       /\ RootStrategy # NoStrategy
            => W[RootLinear.bias].sharding_strategy = C6_Expected(RootStrategy)

C6_Witness ==
    /\ root.cls = "Linear"
    /\ ret.op = "Linear.sharding_strategy"
    /\ RootLinear.bias # NoRef
    /\ ret.strategy = Strategy("tensor_parallel", 2)
    /\ RootStrategy = Strategy("tensor_parallel", 2)
    /\ W[RootLinear.bias].sharding_strategy = replicate(2)

\* C7: shard(devices) on a Linear whose weight has no strategy, or on an
\* MLP whose strategy was never set, fails with an error and makes no shard.
C7_ShardWithoutStrategyFails ==
    /\ (ret.op = "Linear.shard" /\ RootStrategy = NoStrategy)
        => /\ ret.status = "ValueError"
           /\ ret.shards = <<>>
           /\ Len(L) = root.nL
    /\ (ret.op = "MLP.shard" /\ RootMLP.sharding_strategy = NoStrategy)
        => /\ ret.status = "ValueError"
           /\ ret.shards = <<>>
           /\ Len(L) = root.nL
           /\ Len(M) = root.nM

C7_Witness ==
    /\ ret.op = "Linear.shard"
    /\ RootStrategy = NoStrategy
    /\ ret.status = "ValueError"
    /\ Len(ret.devices.items) = 2

C7_WitnessMLP ==
    /\ ret.op = "MLP.shard"
    /\ RootMLP.sharding_strategy = NoStrategy
    /\ ret.status = "ValueError"
    /\ Len(ret.devices.items) = 2

\* The weights of the Linear lid.
WeightOf(lid) == L[lid].weight

\* C8: a shard call leaves the source layer as it was (its objects, their
\* fields and their strategies), and the weights of the shards it returns
\* are objects that did not exist before.
C8_ShardLeavesSourceUnchanged ==
    [][ret'.op \in {"Linear.shard", "MLP.shard"}
        => /\ SubSeq(W', 1, root.nW) = SubSeq(W, 1, root.nW)
           /\ SubSeq(L', 1, root.nL) = SubSeq(L, 1, root.nL)
           /\ SubSeq(M', 1, root.nM) = SubSeq(M, 1, root.nM)
           /\ root' = root
           /\ ret'.op = "Linear.shard"
                => \A k \in DOMAIN ret'.shards :
                    /\ ret'.shards[k] > root.nL
                    /\ L'[ret'.shards[k]].weight > root.nW
           /\ ret'.op = "MLP.shard"
                => \A k \in DOMAIN ret'.shards :
                    /\ ret'.shards[k] > root.nM
                    /\ \A p \in {M'[ret'.shards[k]].gate_proj,
                                 M'[ret'.shards[k]].down_proj,
                                 M'[ret'.shards[k]].up_proj} :
                        p > root.nL /\ L'[p].weight > root.nW]_vars

C8_Witness ==
    /\ ret.op = "MLP.shard"
    /\ ret.status = "ok"
    /\ Len(ret.shards) = 2
    /\ RootMLP.sharding_strategy = Strategy("tensor_parallel", 2)
    /\ W[WeightOf(RootMLP.down_proj)].sharding_strategy = columnwise(2)
    /\ WeightOf(M[ret.shards[2]].down_proj) > root.nW

\* C9: assigning s to an MLP gives all three sub-layers s when s is
\* replicate; gives gate_proj and up_proj rowwise(n) and down_proj
\* colwise(n) when s is tensor-parallel over n devices; and fails for every
\* other kind of s.
C9_MLPStrategyPropagation ==
    ret.op = "MLP.sharding_strategy"
    => LET s == ret.strategy
           gate == W[WeightOf(RootMLP.gate_proj)].sharding_strategy
           up == W[WeightOf(RootMLP.up_proj)].sharding_strategy
           down == W[WeightOf(RootMLP.down_proj)].sharding_strategy
       IN  /\ s.kind = "replicate"
                => ret.status = "ok" /\ gate = s /\ up = s /\ down = s
           /\ s.kind = "tensor_parallel"
                => /\ ret.status = "ok"
                   /\ gate = [kind |-> "rowwise", num_devices |-> s.num_devices]
                   /\ up = [kind |-> "rowwise", num_devices |-> s.num_devices]
                   /\ down = [kind |-> "colwise", num_devices |-> s.num_devices]
           /\ s.kind \notin {"replicate", "tensor_parallel"}
                => ret.status = "ValueError"

C9_Witness ==
    /\ ret.op = "MLP.sharding_strategy"
    /\ ret.status = "ok"
    /\ ret.strategy = Strategy("tensor_parallel", 2)
    /\ W[WeightOf(RootMLP.gate_proj)].sharding_strategy = rowwise(2)
    /\ W[WeightOf(RootMLP.down_proj)].sharding_strategy = columnwise(2)

\* The forward pass ran the down projection.
DownProjApplied == \E k \in DOMAIN ret.trace : ret.trace[k].who = "down_proj"

\* C10: MLP.__call__ skips the down projection and returns the hidden
\* tensor exactly when the MLP has no quantization encoding, no float8
\* config and a dist_gemm_config with enable_matmul_allreduce true; in every
\* other configuration its result comes from down_proj.
C10_DownProjSkippedIff ==
    ret.op = "MLP.__call__"
    => LET skip == /\ RootMLP.quantization_encoding = "none"
                   /\ RootMLP.float8_config = NoFloat8
                   /\ RootMLP.dist_gemm_config.present
                   /\ RootMLP.dist_gemm_config.enable_matmul_allreduce
           last == ret.trace[Len(ret.trace)]
       IN  /\ ~DownProjApplied <=> skip
           /\ skip => last = Kernel("mlp", "mul")
           /\ ~skip => last.who = "down_proj"

C10_Witness ==
    /\ ret.op = "MLP.__call__"
    /\ RootMLP.dist_gemm_config = DistributedGemmConfig(TRUE)
    /\ RootMLP.quantization_encoding = "none"
    /\ RootMLP.float8_config = NoFloat8
    /\ ~DownProjApplied

\* The kernels that multiply the input by the weight.
MatmulKernels == {"qmatmul", "matmul_static_scaled_float8",
                  "dynamic_scaled_matmul", "matmul"}

\* The kernel C12 states for the Linear under test.
C12_Expected ==
    IF W[RootLinear.weight].quantization_encoding # "none" THEN "qmatmul"
    ELSE IF RootLinear.float8_config # NoFloat8 /\ RootLinear.input_scale # NoRef
    THEN "matmul_static_scaled_float8"
    ELSE IF RootLinear.float8_config # NoFloat8 THEN "dynamic_scaled_matmul"
    ELSE "matmul"

\* C12: a call of a Linear runs exactly one matmul kernel: the quantized one
\* if the weight has an encoding (float8 config or not), else the static
\* float8 one if a float8 config and an input scale are present, else the
\* dynamic float8 one if a float8 config is present, else the plain one; the
\* bias, when present, is added after it, in every mode.
C12_KernelDispatch ==
    ret.op = "Linear.__call__"
    => LET mm == {k \in DOMAIN ret.trace : ret.trace[k].op \in MatmulKernels}
           adds == {k \in DOMAIN ret.trace : ret.trace[k].op = "add_bias"}
       IN  /\ Cardinality(mm) = 1
           /\ \A k \in mm : ret.trace[k].op = C12_Expected
           /\ RootLinear.bias # NoRef
                => /\ adds = {Len(ret.trace)}
                   /\ \A k \in mm : k < Len(ret.trace)
           /\ RootLinear.bias = NoRef => adds = {}

C12_Witness ==
    /\ ret.op = "Linear.__call__"
    /\ W[RootLinear.weight].quantization_encoding # "none"
    /\ RootLinear.float8_config # NoFloat8
    /\ RootLinear.input_scale # NoRef
    /\ RootLinear.bias # NoRef
    /\ \E k \in DOMAIN ret.trace : ret.trace[k].op = "qmatmul"
    /\ ret.trace[Len(ret.trace)].op = "add_bias"

\* C16: the construction of a Linear with a Float8Config succeeds exactly
\* when the input scale's granularity is tensor or colwise and the weight
\* scale's granularity is rowwise or tensor, for a static and for a dynamic
\* origin alike; every other combination ends in a configuration error.
C16_Float8Validation ==
    (ret.op = "Linear.__init__" /\ ret.float8_config # NoFloat8)
    => LET f8 == ret.float8_config
           valid == /\ f8.input_granularity \in {"tensor", "colwise"}
                    /\ f8.weight_granularity \in {"rowwise", "tensor"}
       IN  /\ valid => ret.status = "ok" /\ root.cls = "Linear"
           /\ ~valid => ret.status = "ValueError" /\ root.cls = "none"

C16_Witness ==
    /\ ret.op = "Linear.__init__"
    /\ ret.float8_config.input_granularity = "rowwise"
    /\ ret.float8_config.weight_granularity = "tensor"
    /\ ret.float8_config.origin = "static"
    /\ ret.status = "ValueError"
    /\ root.cls = "none"

\* C20 as stated: for a float8 Linear, after the assignment of a strategy of
\* any kind, the weight scale's strategy is not a replicate strategy only if
\* the scale's granularity is rowwise and the weight's strategy is rowwise.
C20_NonReplicateOnlyRowwise ==
    (root.cls = "Linear" /\ RootLinear.float8_config # NoFloat8
        /\ ret.op = "Linear.sharding_strategy")
    => (W[RootLinear.weight_scale].sharding_strategy.kind # "replicate"
        => /\ RootLinear.float8_config.weight_granularity = "rowwise"
           /\ RootStrategy.kind = "rowwise")

\* C20, amended: the weight scale's strategy is not a replicate strategy
\* only if the scale's granularity is rowwise and the assigned strategy is
\* rowwise or tensor-parallel, and it is then the assigned strategy itself.
C20_NonReplicateOnlyMirrored ==
    (root.cls = "Linear" /\ RootLinear.float8_config # NoFloat8
        /\ ret.op = "Linear.sharding_strategy")
    => (W[RootLinear.weight_scale].sharding_strategy.kind # "replicate"
        => /\ RootLinear.float8_config.weight_granularity = "rowwise"
           /\ ret.strategy.kind \in {"rowwise", "tensor_parallel"}
           /\ W[RootLinear.weight_scale].sharding_strategy = ret.strategy)

C20_Witness ==
    /\ root.cls = "Linear"
    /\ ret.op = "Linear.sharding_strategy"
    /\ RootLinear.float8_config # NoFloat8
    /\ RootLinear.float8_config.weight_granularity = "rowwise"
    /\ ret.strategy = [kind |-> "tensor_parallel", num_devices |-> 2]
    /\ W[RootLinear.weight_scale].sharding_strategy = ret.strategy

\* The Linear lid is a new object whose weight is shard i (1-based) of the
\* weight of the Linear from.
IsShardOf(lid, from, i) ==
    /\ lid > root.nL
    /\ W[L[lid].weight].parent = L[from].weight
    /\ W[L[lid].weight].idx = i - 1

\* C19: MLP.shard over a list of N devices, on an MLP whose strategy is one
\* its setter accepted, returns N new MLPs; the i-th has devices =
\* [devices[i]], the source's activation, quantization encoding, float8
\* config, dist_gemm_config, hidden_dim and feed_forward_length, and its
\* gate_proj, down_proj and up_proj are the i-th shards of the source's
\* gate_proj, down_proj and up_proj.
C19_MLPShardStructure ==
    \A n \in 1..MaxDev :
        (ret.op = "MLP.shard"
            /\ RootMLP.sharding_strategy.kind \in {"replicate", "tensor_parallel"}
            /\ DeviceListOf(n))
        => /\ ret.status = "ok"
           /\ Len(ret.shards) = n
           /\ \A i \in 1..n :
                LET sh == M[ret.shards[i]]
                IN  /\ ret.shards[i] > root.nM
                    /\ \A j \in 1..n : ret.shards[j] = ret.shards[i] => j = i
                    /\ sh.devices = <<ret.devices.items[i]>>
                    /\ sh.activation_function = RootMLP.activation_function
                    /\ sh.quantization_encoding = RootMLP.quantization_encoding
                    /\ sh.float8_config = RootMLP.float8_config
                    /\ sh.dist_gemm_config = RootMLP.dist_gemm_config
                    /\ sh.hidden_dim = RootMLP.hidden_dim
                    /\ sh.feed_forward_length = RootMLP.feed_forward_length
                    /\ IsShardOf(sh.gate_proj, RootMLP.gate_proj, i)
                    /\ IsShardOf(sh.down_proj, RootMLP.down_proj, i)
                    /\ IsShardOf(sh.up_proj, RootMLP.up_proj, i)

C19_Witness ==
    /\ ret.op = "MLP.shard"
    /\ ret.status = "ok"
    /\ RootMLP.sharding_strategy = [kind |-> "tensor_parallel", num_devices |-> 2]
    /\ DeviceListOf(2)
    /\ Len(ret.shards) = 2
    /\ M[ret.shards[2]].devices = <<GPU(1)>>
    /\ IsShardOf(M[ret.shards[2]].down_proj, RootMLP.down_proj, 2)
    /\ IsShardOf(M[ret.shards[2]].up_proj, RootMLP.up_proj, 2)

\* The float8 state of a Linear that C18 states: a float8 config comes with a
\* weight scale, and an input scale is there exactly under a static config.
Float8StateOK(lin) ==
    /\ lin.float8_config # NoFloat8 => lin.weight_scale # NoRef
    /\ lin.input_scale # NoRef
        <=> (lin.float8_config # NoFloat8 /\ lin.float8_config.origin = "static")

\* The kernel trace of a float8 Linear without an encoding never shows the
\* dynamic path under a static config.
NoDynamicFallback(lin) ==
    (lin.float8_config # NoFloat8 /\ lin.float8_config.origin = "static")
    => \A k \in DOMAIN LinearCall(W, lin, "self") :
            LinearCall(W, lin, "self")[k].op # "dynamic_scaled_matmul"

\* C11: for an MLP without quantization encoding and float8 config whose
\* down projection is not skipped, the value the merged path returns for a
\* rank-2 input is the value of down_proj(act(gate_proj(x)) * up_proj(x))
\* computed projection by projection from the same weights and biases.
C11_FusedEqualsUnfused ==
    (ret.op = "MLP.__call__"
        /\ RootMLP.quantization_encoding = "none"
        /\ RootMLP.float8_config = NoFloat8
        /\ ~SkipDownProj(RootMLP)
        /\ IsExact(RootMLP.activation_function))
    => ret.out = MLPUnfused(W, L, StateDict(W, ret.data), RootMLP, ret.x)

C11_Witness ==
    /\ ret.op = "MLP.__call__"
    /\ RootMLP.quantization_encoding = "none"
    /\ RootMLP.float8_config = NoFloat8
    /\ ~SkipDownProj(RootMLP)
    /\ L[RootMLP.gate_proj].bias # NoRef
    /\ L[RootMLP.up_proj].bias # NoRef
    /\ Len(ret.x) = 2
    /\ ret.out = MLPUnfused(W, L, StateDict(W, ret.data), RootMLP, ret.x)
    /\ \E i \in DOMAIN ret.out : \E j \in DOMAIN ret.out[i] :
            ret.out[i][j] # TensorOf(W, StateDict(W, ret.data),
                                     L[RootMLP.down_proj].bias)[j]

\* The ColumnParallelLinear under test.
RootCPL == L[root.id]

\* The weight wid is shard i (1-based) of the weight from, cut rowwise over
\* n devices, on device.
IsRowShard(wid, from, i, n, device) ==
    /\ W[wid].parent = from
    /\ W[wid].idx = i - 1
    /\ W[wid].via = [kind |-> "rowwise", num_devices |-> n]
    /\ W[wid].device = device

\* C13: a ColumnParallelLinear over N >= 1 devices has, after its
\* construction, the weight strategy rowwise(N), and has N distributed
\* layers; layer i is on devices[i] and holds shard i of the weight and, if
\* the layer has a bias, shard i of the bias, cut rowwise over N.
C13_ReplicasHoldShards ==
    root.cls = "ColumnParallelLinear"
    => LET self == RootCPL
           n == Len(self.devices)
       IN  /\ n >= 1
           /\ self.num_devices = n
           /\ ret.op = "ColumnParallelLinear.__init__"
                => /\ self.devices = ret.devices.items
                   /\ W[self.weight].sharding_strategy =
                        [kind |-> "rowwise", num_devices |-> n]
           /\ Len(self.distributed_linear_layers) = n
           /\ \A i \in 1..n :
                LET layer == L[self.distributed_linear_layers[i]]
                IN  /\ layer.device = self.devices[i]
                    /\ IsRowShard(layer.weight, self.weight, i, n,
                                  self.devices[i])
                    /\ self.bias # NoRef
                        => IsRowShard(layer.bias, self.bias, i, n,
                                      self.devices[i])

C13_Witness ==
    /\ root.cls = "ColumnParallelLinear"
    /\ ret.op = "ColumnParallelLinear.__init__"
    /\ RootCPL.num_devices = 2
    /\ RootCPL.bias # NoRef
    /\ W[RootCPL.weight].shape = <<2, 2>>
    /\ L[RootCPL.distributed_linear_layers[2]].device = GPU(1)
    /\ W[L[RootCPL.distributed_linear_layers[2]].weight].idx = 1
    /\ W[L[RootCPL.distributed_linear_layers[2]].weight].shape = <<1, 2>>
    /\ W[L[RootCPL.distributed_linear_layers[2]].bias].shape = <<1>>

\* C14: a call of a ColumnParallelLinear over N devices returns N values that
\* are all equal; for a layer that multiplies by the weight itself, each value
\* is the concatenation along the last axis, in device order, of the results
\* of layer k run on x[k] (not their sum), and with the same input on every
\* device each value is x W^T + b, the output of the unsharded layer.
C14_AllGatherConcat ==
    ret.op = "ColumnParallelLinear.__call__"
    => LET self == RootCPL
           n == self.num_devices
           data == StateDict(W, ret.data)
           partial == [k \in 1..n |->
                LinearForward(W, data, L[self.distributed_linear_layers[k]],
                              ret.x[k])]
       IN  /\ Len(ret.out) = n
           /\ \A i \in 1..n : ret.out[i] = ret.out[1]
           /\ IsPlain(W, self)
                => /\ \A i \in 1..n : \A r \in DOMAIN ret.x[1] :
                        ret.out[i][r] = GatherRow(partial, r, 1)
                   /\ (\A k \in 1..n : ret.x[k] = ret.x[1])
                        => \A i \in 1..n :
                            ret.out[i] = LinearForward(W, data, self, ret.x[1])

\* C15: the construction of a ColumnParallelLinear with a tied weight and a
\* float8 config, or with a tied weight and a bias, ends in a configuration
\* error; no weight has been allocated by then and the tied weight has no
\* strategy.
C15_TiedConfigRejected ==
    (ret.op = "ColumnParallelLinear.__init__"
        /\ ret.tied_weight # NoRef
        /\ (ret.kwargs.float8_config # NoFloat8
            \/ (ret.kwargs.has_bias.given /\ ret.kwargs.has_bias.value)))
    => /\ ret.status = "ValueError"
       /\ root.cls = "none"
       /\ ret.allocated = 0
       /\ Len(W) = 1
       /\ W[ret.tied_weight].sharding_strategy = NoStrategy

C15_Witness ==
    /\ ret.op = "ColumnParallelLinear.__init__"
    /\ ret.tied_weight # NoRef
    /\ ret.kwargs.float8_config = NoFloat8
    /\ ret.kwargs.has_bias.given
    /\ ret.kwargs.has_bias.value
    /\ Len(ret.devices.items) = 2
    /\ ret.status = "ValueError"
    /\ ret.allocated = 0

\* C17: the construction of a ColumnParallelLinear over an empty list of
\* devices ends in a configuration error, whatever the other arguments.
C17_EmptyDevicesRejected ==
    (ret.op = "ColumnParallelLinear.__init__" /\ ret.devices.items = <<>>)
    => /\ ret.status = "ValueError"
       /\ root.cls = "none"
       /\ ret.allocated = 0

C17_Witness ==
    /\ ret.op = "ColumnParallelLinear.__init__"
    /\ ret.devices.items = <<>>
    /\ ret.tied_weight = NoRef
    /\ ret.kwargs.float8_config = NoFloat8
    /\ ~ret.kwargs.has_bias.given
    /\ ret.status = "ValueError"

\* C18: every Linear there is (a constructed one, the sub-layers of an MLP,
\* the shards a shard call returns, the layers of a ColumnParallelLinear),
\* after any sequence of strategy assignments and shard calls, has a weight
\* scale if it has a float8 config and has an input scale exactly if it has a
\* float8 config of static origin; so a call never finds the weight scale
\* missing and a static config never runs the dynamic kernels.
C18_Float8ScalesPresent ==
    \A lid \in DOMAIN L : Float8StateOK(L[lid]) /\ NoDynamicFallback(L[lid])

C18_Witness ==
    /\ ret.op = "Linear.shard"
    /\ ret.status = "ok"
    /\ Len(ret.shards) = 2
    /\ RootLinear.float8_config # NoFloat8
    /\ RootLinear.float8_config.origin = "static"
    /\ RootLinear.float8_config.weight_granularity = "rowwise"
    /\ RootStrategy = [kind |-> "rowwise", num_devices |-> 2]
    /\ L[ret.shards[2]].input_scale = RootLinear.input_scale
    /\ L[ret.shards[2]].weight_scale # NoRef
    /\ W[L[ret.shards[2]].weight_scale].parent = RootLinear.weight_scale

\* C21: Linear.shard(devices) returns one Linear per element of devices, in
\* order, the i-th on the i-th device and holding the i-th shard of the
\* weight, for a list of devices and for a single-pass iterator alike.
C21_ShardPerDevice ==
    LinearSharded
    => /\ Len(ret.shards) = Len(ret.devices.items)
       /\ \A i \in DOMAIN ret.shards :
            /\ L[ret.shards[i]].device = ret.devices.items[i]
            /\ IsShardOf(ret.shards[i], root.id, i)

\* a + b, elementwise.
AddT(a, b) == [i \in 1..Len(a) |-> [j \in 1..Len(a[i]) |-> a[i][j] + b[i][j]]]

\* The elementwise sum of the tensors parts[k..].
RECURSIVE SumT(_, _)
SumT(parts, k) ==
    IF k = Len(parts) THEN parts[k] ELSE AddT(parts[k], SumT(parts, k + 1))

\* The last call ran the shards of an MLP without encoding and float8 config,
\* cut by a tensor-parallel strategy over n devices from a list of n devices,
\* n dividing feed_forward_length, the down projection not skipped.
TPShardsCalled(n) ==
    /\ ret.op = "MLP.__call__ (shards)"
    /\ RootMLP.quantization_encoding = "none"
    /\ RootMLP.float8_config = NoFloat8
    /\ RootMLP.sharding_strategy = [kind |-> "tensor_parallel", num_devices |-> n]
    /\ DeviceListOf(n)
    /\ RootMLP.feed_forward_length % n = 0
    /\ ~SkipDownProj(RootMLP)
    /\ IsExact(RootMLP.activation_function)

\* C22: for such an MLP the outputs of the n shards on one input sum,
\* elementwise, to the output of the unsharded MLP on that input; with a
\* bias, only the first shard's down projection has one, so the bias of
\* down_proj enters the sum once.
C22_TensorParallelSum ==
    \A n \in 1..MaxDev :
        TPShardsCalled(n)
        => /\ Len(ret.out) = n
           /\ SumT(ret.out, 1) =
                MLPForward(W, L, StateDict(W, ret.data), RootMLP, ret.x)
           /\ L[RootMLP.down_proj].bias # NoRef
                => /\ L[M[ret.shards[1]].down_proj].bias # NoRef
                   /\ \A i \in 2..n : L[M[ret.shards[i]].down_proj].bias = NoRef
                   /\ Cardinality({k \in DOMAIN ret.trace :
                            ret.trace[k] = Kernel("down_proj", "add_bias")}) = 1
           /\ Cardinality({k \in DOMAIN ret.trace :
                    ret.trace[k] = Kernel("down_proj", "matmul")}) = n

C22_Witness ==
    /\ TPShardsCalled(2)
    /\ RootMLP.feed_forward_length = 2
    /\ L[RootMLP.down_proj].bias # NoRef
    /\ Len(ret.out) = 2
    /\ ret.out[1] # ret.out[2]
    /\ ret.out[1] # MLPForward(W, L, StateDict(W, ret.data), RootMLP, ret.x)
    /\ AddT(ret.out[1], ret.out[2]) =
        MLPForward(W, L, StateDict(W, ret.data), RootMLP, ret.x)
    /\ \E i \in DOMAIN ret.out[2] : \E j \in DOMAIN ret.out[2][i] :
        ret.out[2][i][j] # 0

\* The strategies the MLP strategy s hands to the sub-layers.
C23_Derived(s, proj) ==
    IF s.kind = "tensor_parallel"
    THEN [kind |-> IF proj = "down_proj" THEN "colwise" ELSE "rowwise",
          num_devices |-> s.num_devices]
    ELSE s

\* C23: an assignment of an unsupported kind of strategy to an MLP that ends
\* in a configuration error leaves the MLP as it was: the strategy it records
\* and the strategies of the weights of gate_proj, up_proj and down_proj are
\* those from before the assignment; the recorded strategy is therefore set
\* only when the three sub-layers carry the strategies derived from it.
C23_FailedAssignmentNoChange ==
    [][(ret'.op = "MLP.sharding_strategy" /\ ret'.status = "ValueError")
        => /\ M'[root.id].sharding_strategy = M[root.id].sharding_strategy
           /\ \A lid \in {RootMLP.gate_proj, RootMLP.up_proj, RootMLP.down_proj} :
                W'[L[lid].weight].sharding_strategy =
                    W[L[lid].weight].sharding_strategy
           /\ M'[root.id].sharding_strategy # NoStrategy
                => /\ W'[L[RootMLP.gate_proj].weight].sharding_strategy =
                        C23_Derived(M'[root.id].sharding_strategy, "gate_proj")
                   /\ W'[L[RootMLP.up_proj].weight].sharding_strategy =
                        C23_Derived(M'[root.id].sharding_strategy, "up_proj")
                   /\ W'[L[RootMLP.down_proj].weight].sharding_strategy =
                        C23_Derived(M'[root.id].sharding_strategy, "down_proj")]_vars

\* C24: in a ColumnParallelLinear over N devices constructed with a float8
\* config of rowwise weight-scale granularity, the weight scale of every
\* per-device layer has as many rows as that layer's weight shard: it is the
\* part of the layer's weight scale that goes with the shard.
C24_ReplicaScaleRows ==
    (root.cls = "ColumnParallelLinear"
        /\ RootCPL.float8_config # NoFloat8
        /\ RootCPL.float8_config.weight_granularity = "rowwise")
    => \A i \in 1..RootCPL.num_devices :
        LET layer == L[RootCPL.distributed_linear_layers[i]]
        IN  /\ layer.weight_scale # NoRef
            /\ W[layer.weight_scale].shape[1] = W[layer.weight].shape[1]
            /\ W[layer.weight_scale].parent = RootCPL.weight_scale
            /\ W[layer.weight_scale].idx = i - 1

\* C25: the construction of a ColumnParallelLinear over N >= 1 devices with a
\* tied weight, no float8 config and no bias (has_bias left out, or given as
\* False) succeeds; the layer's weight is then the tied weight object, and
\* that object's strategy is rowwise(N).
C25_TiedWeightAccepted ==
    (ret.op = "ColumnParallelLinear.__init__"
        /\ ret.tied_weight # NoRef
        /\ ret.kwargs.float8_config = NoFloat8
        /\ ~ret.kwargs.has_bias.value
        /\ Len(ret.devices.items) >= 1)
    => /\ ret.status = "ok"
       /\ root.cls = "ColumnParallelLinear"
       /\ RootCPL.weight = ret.tied_weight
       /\ W[ret.tied_weight].sharding_strategy =
            [kind |-> "rowwise", num_devices |-> Len(ret.devices.items)]

===========================================================================
